---- MODULE Spec2Model ----
(***************************************************************************)
(* A model of the two cores of the data-access layer:                      *)
(*   - the WHERE compiler (buildWhereClause and its helpers), modelled as  *)
(*     operators over JavaScript-like values, and                          *)
(*   - the connection layer (getConnection, the idle sweep) and the        *)
(*     transaction handler (handler), modelled as a state machine whose    *)
(*     steps are the code between two awaits.                              *)
(* Time is counted in units of the sweep's interval (30 s).                *)
(***************************************************************************)
EXTENDS Integers, Sequences, FiniteSets, TLC

(***************************************************************************)
(* Bounds of the model.                                                    *)
(***************************************************************************)
MaxWraps == 2
MaxStart == 2
MaxEntries == 3
MaxClients == 2
MaxTicks == 4

(***************************************************************************)
(* The state of a caller of the compiler: the WhereInput it holds         *)
(* (whereInput), the startIndex it passes (firstIndex), the number of      *)
(* and()/or()/not() calls it made and what buildWhereClause returned.      *)
(***************************************************************************)
VARIABLES whereInput, firstIndex, wraps, compiled

(***************************************************************************)
(* The state of a caller of a query builder: the builder's fields          *)
(* (builder; its where input is whereInput) and what its execute() passed  *)
(* to connection.query (sent).                                             *)
(***************************************************************************)
VARIABLES builder, sent

buildVars == <<builder, sent>>

compVars == <<whereInput, firstIndex, wraps, compiled, buildVars>>

(***************************************************************************)
(* The state of the connection layer: the configuration getConnection and  *)
(* the sweep read, the clock (Date.now()), the pool's clients (out[c]: c   *)
(* is checked out; lastUse[c]: its _lastUse tag, 0 while unset) and one    *)
(* record per call of handler() or getConnection() in flight.              *)
(***************************************************************************)
VARIABLES config, now, out, lastUse, proc

runVars == <<config, now, out, lastUse, proc>>

vars == <<compVars, runVars>>

(***************************************************************************)
(* JavaScript values.  An object keeps its entries in insertion order, as  *)
(* Object.entries reports them.                                            *)
(***************************************************************************)
Num(n) == [k |-> "num", n |-> n]
Str(s) == [k |-> "str", s |-> s]
Null == [k |-> "null"]
Undefined == [k |-> "undef"]
Bool(b) == [k |-> "bool", b |-> b]
Arr(a) == [k |-> "arr", a |-> a]
Obj(e) == [k |-> "obj", e |-> e]

\* key in obj
Has(o, key) == o.k = "obj" /\ \E i \in 1..Len(o.e) : o.e[i][1] = key

\* obj[key] (undefined when the key is absent or o is no object)
Get(o, key) ==
    IF Has(o, key)
    THEN o.e[CHOOSE i \in 1..Len(o.e) : o.e[i][1] = key][2]
    ELSE Undefined

\* the truthiness JavaScript gives a value in `!x`, `x || y`, `if (x)`
Truthy(v) ==
    CASE v.k = "num" -> v.n # 0
      [] v.k = "str" -> v.s # ""
      [] v.k = "bool" -> v.b
      [] v.k = "null" -> FALSE
      [] v.k = "undef" -> FALSE
      [] OTHER -> TRUE

IsArray(v) == v.k = "arr"

\* what a template literal `${v}` prints for a scalar
JsString(v) ==
    CASE v.k = "str" -> v.s
      [] v.k = "num" -> ToString(v.n)
      [] v.k = "null" -> "null"
      [] v.k = "undef" -> "undefined"
      [] v.k = "arr" -> "<array>"
      [] OTHER -> "[object Object]"

(***************************************************************************)
(* SQL text is a sequence of tokens: literal text, and placeholders $n.    *)
(* Adjacent text is merged, so equal strings are equal sequences.  A       *)
(* placeholder token remembers (field v) the value the code generated it   *)
(* for; Render forgets it.                                                 *)
(***************************************************************************)
Txt(s) == IF s = "" THEN <<>> ELSE <<[t |-> "txt", s |-> s]>>
Ph(n, v) == <<[t |-> "ph", n |-> n, v |-> v]>>

Cat(a, b) ==
    IF a = <<>> THEN b
    ELSE IF b = <<>> THEN a
    ELSE IF a[Len(a)].t = "txt" /\ b[1].t = "txt"
         THEN SubSeq(a, 1, Len(a) - 1)
                \o <<[t |-> "txt", s |-> a[Len(a)].s \o b[1].s]>>
                \o SubSeq(b, 2, Len(b))
         ELSE a \o b

Cat3(a, b, c) == Cat(Cat(a, b), c)

\* the SQL string as the database sees it: placeholders by number only
Render(sql) ==
    [i \in 1..Len(sql) |->
        IF sql[i].t = "ph" THEN [t |-> "ph", n |-> sql[i].n] ELSE sql[i]]

\* the placeholder tokens of a SQL text, left to right
Placeholders(sql) == SelectSeq(sql, LAMBDA tok : tok.t = "ph")

(***************************************************************************)
(* operators.ts / conditions.ts: the condition builders.                   *)
(***************************************************************************)
FieldCond(field, operator, value) ==
    Obj(<< <<"field", Str(field)>>, <<"operator", Str(operator)>>, <<"value", value>> >>)

eq(field, value) == FieldCond(field, "=", value)
gt(field, value) == FieldCond(field, ">", value)
lt(field, value) == FieldCond(field, "<", value)
like(field, value) == FieldCond(field, "LIKE", value)
inArray(field, value) == FieldCond(field, "IN", Arr(value))
notInArray(field, value) == FieldCond(field, "NOT IN", Arr(value))
between(field, from, to) == FieldCond(field, "BETWEEN", Arr(<<from, to>>))

Logical(type, conditions) ==
    Obj(<< <<"type", Str(type)>>, <<"conditions", Arr(conditions)>> >>)

and(conditions) == Logical("AND", conditions)
or(conditions) == Logical("OR", conditions)
not(conditions) == Logical("NOT", conditions)

(***************************************************************************)
(* where.ts: recordToConditionNode.                                        *)
(***************************************************************************)
\* (mutant) entries whose value is undefined are not skipped
RECURSIVE FieldConditionsKeepUndefined(_)
FieldConditionsKeepUndefined(entries) ==
    IF entries = <<>> THEN <<>>
    ELSE LET key == entries[1][1]
             value == entries[1][2]
             rest == FieldConditionsKeepUndefined(Tail(entries))
         IN IF IsArray(value)
            THEN <<Obj(<< <<"field", Str(key)>>, <<"operator", Str("IN")>>,
                          <<"value", value>> >>)>> \o rest
            ELSE <<eq(key, value)>> \o rest

\* the loop over Object.entries(where)
RECURSIVE FieldConditionsOf(_)
FieldConditionsOf(entries) ==
    IF entries = <<>> THEN <<>>
    ELSE LET key == entries[1][1]
             value == entries[1][2]
             rest == FieldConditionsOf(Tail(entries))
         IN IF value = Undefined THEN rest
            ELSE IF IsArray(value)
                 THEN <<Obj(<< <<"field", Str(key)>>, <<"operator", Str("IN")>>,
                               <<"value", value>> >>)>> \o rest
                 ELSE <<eq(key, value)>> \o rest

\* null is modelled as Null
recordToConditionNode(where) ==
    LET fieldConditions == FieldConditionsOf(where.e)
    IN IF Len(fieldConditions) = 0 THEN Null
       ELSE IF Len(fieldConditions) = 1 THEN fieldConditions[1]
       ELSE and(fieldConditions)

(***************************************************************************)
(* where.ts: buildConditionNode.                                           *)
(***************************************************************************)
\* (mutant) the index is not advanced from one list element to the next
RECURSIVE InPlaceholdersSameIndex(_, _)
InPlaceholdersSameIndex(values, index) ==
    IF values = <<>> THEN <<>>
    ELSE IF Len(values) = 1 THEN Ph(index, values[1])
    ELSE Cat3(Ph(index, values[1]), Txt(", "), InPlaceholdersSameIndex(Tail(values), index))

\* values.map(() => `$${index++}`).join(", ")
RECURSIVE InPlaceholders(_, _)
InPlaceholders(values, index) ==
    IF values = <<>> THEN <<>>
    ELSE IF Len(values) = 1 THEN Ph(index, values[1])
    ELSE Cat3(Ph(index, values[1]), Txt(", "), InPlaceholders(Tail(values), index + 1))

\* a destructured array element: undefined past the end
ElemOr(arr, i) == IF IsArray(arr) /\ i <= Len(arr.a) THEN arr.a[i] ELSE Undefined

\* (mutant) the constant of an empty list takes a placeholder number
EmptyListLeafAdvances(operator, startIndex) ==
    [sql |-> Txt(IF operator = Str("IN") THEN "1 = 0" ELSE "1 = 1"),
     params |-> <<>>, nextIndex |-> startIndex + 1]

\* line 68: IN / NOT IN with no values
EmptyListLeaf(operator, startIndex) ==
    [sql |-> Txt(IF operator = Str("IN") THEN "1 = 0" ELSE "1 = 1"),
     params |-> <<>>, nextIndex |-> startIndex]

BuildLeaf(node, startIndex) ==
    LET field == JsString(Get(node, "field"))
        operator == Get(node, "operator")
    IN IF operator = Str("IN") \/ operator = Str("NOT IN")
       THEN LET values == IF Truthy(Get(node, "value")) THEN Get(node, "value") ELSE Arr(<<>>)
            IN IF ~IsArray(values) \/ Len(values.a) = 0
               THEN EmptyListLeaf(operator, startIndex)
               ELSE [sql |-> Cat3(Txt(field \o " " \o JsString(operator) \o " ("),
                                  InPlaceholders(values.a, startIndex), Txt(")")),
                     params |-> values.a,
                     nextIndex |-> startIndex + Len(values.a)]
       ELSE IF operator = Str("BETWEEN")
       THEN LET from == ElemOr(Get(node, "value"), 1)
                to == ElemOr(Get(node, "value"), 2)
            IN [sql |-> Cat(Cat3(Txt(field \o " BETWEEN "), Ph(startIndex, from), Txt(" AND ")),
                            Ph(startIndex + 1, to)),
                params |-> <<from, to>>,
                nextIndex |-> startIndex + 2]
       ELSE LET value == Get(node, "value")
            IN IF value = Null
               THEN [sql |-> Txt(field \o " IS NULL"), params |-> <<>>,
                     nextIndex |-> startIndex]
               ELSE [sql |-> Cat(Txt(field \o " " \o JsString(operator) \o " "),
                                 Ph(startIndex, value)),
                     params |-> <<value>>,
                     nextIndex |-> startIndex + 1]

RECURSIVE buildConditionNode(_, _)
RECURSIVE BuildChildren(_, _, _, _)

\* (mutant) a child that built no SQL is pushed like any other
BuildChildrenKeepEmpty(children, joiner, acc, first) ==
    IF children = <<>> THEN acc
    ELSE LET built == buildConditionNode(children[1], acc.nextIndex)
         IN BuildChildren(Tail(children), joiner,
                [sql |-> Cat(Cat(acc.sql, IF first THEN <<>> ELSE Txt(joiner)),
                             Cat3(Txt("("), built.sql, Txt(")"))),
                 params |-> acc.params \o built.params,
                 nextIndex |-> built.nextIndex],
                FALSE)

\* (mutant) the children are joined without parentheses
BuildChildrenBare(children, joiner, acc, first) ==
    IF children = <<>> THEN acc
    ELSE LET built == buildConditionNode(children[1], acc.nextIndex)
         IN IF built.sql # <<>>
            THEN BuildChildren(Tail(children), joiner,
                    [sql |-> Cat(Cat(acc.sql, IF first THEN <<>> ELSE Txt(joiner)), built.sql),
                     params |-> acc.params \o built.params,
                     nextIndex |-> built.nextIndex],
                    FALSE)
            ELSE BuildChildren(Tail(children), joiner, acc, first)

\* the for loop over logical.conditions: acc is (parts joined so far, params, currentIndex)
BuildChildren(children, joiner, acc, first) ==
    IF children = <<>> THEN acc
    ELSE LET built == buildConditionNode(children[1], acc.nextIndex)
         IN IF built.sql # <<>>
            THEN BuildChildren(Tail(children), joiner,
                    [sql |-> Cat(Cat(acc.sql, IF first THEN <<>> ELSE Txt(joiner)),
                                 Cat3(Txt("("), built.sql, Txt(")"))),
                     params |-> acc.params \o built.params,
                     nextIndex |-> built.nextIndex],
                    FALSE)
            ELSE BuildChildren(Tail(children), joiner, acc, first)

\* (mutant) NOT compiles the last of its children
buildConditionNodeLastChild(node, startIndex) ==
    IF ~Has(node, "type")
    THEN BuildLeaf(node, startIndex)
    ELSE LET type == Get(node, "type")
             conditions == Get(node, "conditions")
         IN IF type = Str("NOT")
            THEN IF ~Truthy(conditions) \/ ~IsArray(conditions) \/ Len(conditions.a) = 0
                 THEN [sql |-> <<>>, params |-> <<>>, nextIndex |-> startIndex]
                 ELSE LET built == buildConditionNode(conditions.a[Len(conditions.a)], startIndex)
                      IN IF built.sql = <<>>
                         THEN [sql |-> <<>>, params |-> <<>>, nextIndex |-> built.nextIndex]
                         ELSE [sql |-> Cat3(Txt("NOT ("), built.sql, Txt(")")),
                               params |-> built.params,
                               nextIndex |-> built.nextIndex]
            ELSE LET joiner == IF type = Str("AND") THEN " AND " ELSE " OR "
                     children == IF Truthy(conditions) /\ IsArray(conditions)
                                 THEN conditions.a ELSE <<>>
                 IN BuildChildren(children, joiner,
                        [sql |-> <<>>, params |-> <<>>, nextIndex |-> startIndex], TRUE)

buildConditionNode(node, startIndex) ==
    IF ~Has(node, "type")
    THEN BuildLeaf(node, startIndex)
    ELSE LET type == Get(node, "type")
             conditions == Get(node, "conditions")
         IN IF type = Str("NOT")
            THEN IF ~Truthy(conditions) \/ ~IsArray(conditions) \/ Len(conditions.a) = 0
                 THEN [sql |-> <<>>, params |-> <<>>, nextIndex |-> startIndex]
                 ELSE LET built == buildConditionNode(conditions.a[1], startIndex)
                      IN IF built.sql = <<>>
                         THEN [sql |-> <<>>, params |-> <<>>, nextIndex |-> built.nextIndex]
                         ELSE [sql |-> Cat3(Txt("NOT ("), built.sql, Txt(")")),
                               params |-> built.params,
                               nextIndex |-> built.nextIndex]
            ELSE LET joiner == IF type = Str("AND") THEN " AND " ELSE " OR "
                     children == IF Truthy(conditions) /\ IsArray(conditions)
                                 THEN conditions.a ELSE <<>>
                 IN BuildChildren(children, joiner,
                        [sql |-> <<>>, params |-> <<>>, nextIndex |-> startIndex], TRUE)

(***************************************************************************)
(* where.ts: buildWhereClause.                                             *)
(***************************************************************************)
EmptyClause == [sql |-> <<>>, params |-> <<>>]

buildWhereClause(where, startIndex) ==
    IF ~Truthy(where) THEN EmptyClause
    ELSE LET conditionNode ==
                 IF Truthy(Get(where, "type")) \/ Truthy(Get(where, "field"))
                 THEN where
                 ELSE recordToConditionNode(where)
         IN IF ~Truthy(conditionNode) THEN EmptyClause
            ELSE LET built == buildConditionNode(conditionNode, startIndex)
                 IN IF built.sql = <<>> THEN EmptyClause
                    ELSE [sql |-> Cat(Txt("WHERE "), built.sql), params |-> built.params]

(***************************************************************************)
(* The compiler's callers: a caller composes a condition tree with and(),  *)
(* or(), not() (conditions.ts) or writes a flat filter map, and then       *)
(* compiles it.                                                            *)
(***************************************************************************)

\* leaves a caller starts from
Leaves ==
    { eq("a", Num(1)), eq("a", Null), gt("b", Num(2)), lt("b", Num(10)),
      like("a", Null), inArray("x", <<>>), notInArray("x", <<>>),
      inArray("x", <<Num(1), Null>>), between("b", Num(2), Num(10)) }

\* nodes a caller puts beside the node it is wrapping
Siblings ==
    { eq("a", Num(1)), lt("b", Num(10)), inArray("x", <<Num(1), Num(2)>>), and(<<>>) }

\* flat filter maps: at most MaxEntries of these keys, in this order
KeyOrder == <<"id", "name", "tags", "type", "field">>
FlatValues == { Num(5), Undefined, Null, Arr(<<Num(1), Num(2)>>), Arr(<<>>) }

RECURSIVE EntriesOf(_, _, _)
EntriesOf(keys, f, i) ==
    IF i > Len(KeyOrder) THEN <<>>
    ELSE IF KeyOrder[i] \in keys
         THEN << <<KeyOrder[i], f[KeyOrder[i]]>> >> \o EntriesOf(keys, f, i + 1)
         ELSE EntriesOf(keys, f, i + 1)

KeySets == { K \in SUBSET { KeyOrder[i] : i \in 1..Len(KeyOrder) } : Cardinality(K) <= MaxEntries }

FlatMaps == UNION { { Obj(EntriesOf(K, f, 1)) : f \in [K -> FlatValues] } : K \in KeySets }

IsFlat(w) == w.k = "obj" /\ ~Has(w, "operator") /\ ~Has(w, "conditions")

(***************************************************************************)
(* Errors.  An error value is what the code inspects of it: whether it is  *)
(* an Error (inst), its message, and its code and sqlState properties      *)
(* ("none": the property is absent).                                       *)
(***************************************************************************)
Err(inst, message, code) ==
    [inst |-> inst, message |-> message, code |-> code, sqlState |-> "none"]

NoError == Err("none", "", "none")

\* what pool.connect() rejects with
PoolErrors ==
    { Err("Error", "sorry, too many clients already", "53300"),
      Err("Error", "connection limit exceeded for non-superusers", "none"),
      Err("Error", "Connection terminated unexpectedly", "none"),
      Err("Error", "the database system is shutting down", "57P01"),
      Err("Error", "timeout exceeded when trying to connect", "none"),
      Err("Error", "password authentication failed for user", "28P01"),
      Err("Object", "", "53300") }

\* what a query (BEGIN, COMMIT, ROLLBACK) rejects with
QueryErrors ==
    { Err("Error", "Connection terminated unexpectedly", "none"),
      Err("Error", "could not serialize access due to concurrent update", "40001") }

\* what the caller's work rejects with
WorkErrors ==
    { Err("Error", "duplicate key value violates unique constraint", "23505"),
      Err("Error", "No columns to update.", "none"),
      Err("String", "rejected", "none") }

DeadConnectionError == Err("Error", "Connection is dead, retrying...", "none")
NoConnectionError == Err("Error", "Failed to get database connection", "none")
\* pg: client.release() on a client that is not checked out
AlreadyReleasedError ==
    Err("Error", "Release called on client which has already been released to the pool.", "none")

\* message.includes(phrase)
Includes(message, phrase) ==
    <<message, phrase>> \in
        { <<"sorry, too many clients already", "too many clients">>,
          <<"connection limit exceeded for non-superusers", "connection limit">>,
          <<"Connection terminated unexpectedly", "Connection terminated">>,
          <<"Connection is dead, retrying...", "Connection is dead">> }

InstanceOfError(e) == e.inst \in {"Error", "DatabaseError"}

isTooManyConnections(e) ==
    /\ InstanceOfError(e)
    /\ \/ Includes(e.message, "too many clients")
       \/ Includes(e.message, "connection limit")
       \/ e.code = "53300"

isConnectionLost(e) ==
    /\ InstanceOfError(e)
    /\ \/ e.code = "57P01"
       \/ e.code = "57P02"
       \/ e.code = "57P03"
       \/ Includes(e.message, "Connection terminated")
       \/ Includes(e.message, "Connection is dead")
       \/ Includes(e.message, "server closed the connection")

\* DbError.ts
isDbError(e) ==
    \/ e.inst = "DatabaseError"
    \/ (e.inst \in {"Error", "Object"} /\ (e.code # "none" \/ e.sqlState # "none"))

DatabaseError(e) ==
    [inst |-> "DatabaseError",
     message |-> IF e.message # "" THEN e.message ELSE "Database error occurred",
     code |-> e.code,
     sqlState |-> e.code]

(***************************************************************************)
(* Configuration (ConnectionConfig) and what getConnection and the sweep   *)
(* make of it.                                                             *)
(***************************************************************************)
DefaultRetryCount == 3
DefaultRetryDelay == 1000
DefaultIdleTimeout == 60000
CleanupInterval == 30000

\* x || d, for a number or undefined x
OrElse(x, d) == IF Truthy(x) THEN x.n ELSE d

maxRetries == OrElse(config.connectionRetryCount, DefaultRetryCount)
baseDelay == OrElse(config.connectionRetryDelay, DefaultRetryDelay)
idleTimeout == OrElse(config.idleTimeout, DefaultIdleTimeout)

Config(count, delay) ==
    [connectionRetryCount |-> count, connectionRetryDelay |-> delay, idleTimeout |-> Undefined]

\* 2^n
RECURSIVE Pow2(_)
Pow2(n) == IF n <= 0 THEN 1 ELSE 2 * Pow2(n - 1)

\* (mutant) a delay that grows linearly with the attempt
BackoffDelayLinear(delay, attempt) == delay * (attempt + 1)

\* connection.ts:143
BackoffDelay(delay, attempt) == delay * Pow2(attempt)

\* connection.ts:89
GivesUp(attempt, e) ==
    attempt = maxRetries \/ (~isTooManyConnections(e) /\ ~isConnectionLost(e))

(***************************************************************************)
(* HandlerOption and the ways handler() is called.                         *)
(***************************************************************************)
Flags == {Bool(TRUE), Bool(FALSE), Undefined}

Options ==
    [throwError : Flags, printSqlError : Flags, rollbackIfError : Flags, useTransaction : Flags]

NoOptions ==
    [throwError |-> Undefined, printSqlError |-> Undefined,
     rollbackIfError |-> Undefined, useTransaction |-> Undefined]

\* the default value of handler's parameter option
DefaultOption ==
    [throwError |-> Bool(TRUE), printSqlError |-> Bool(TRUE),
     rollbackIfError |-> Bool(TRUE), useTransaction |-> Bool(TRUE)]

\* handler(work): "default"; handler(work, given): "direct";
\* builder.execute(given): "builder", which calls handler(work, {useTransaction: true, ...given})
CallForms ==
    {[form |-> "default", given |-> NoOptions]}
        \cup [form : {"direct", "builder"}, given : Options]

\* the option object handler() works with
ResolveOption(arg) ==
    IF arg.form = "default" THEN DefaultOption
    ELSE IF arg.form = "direct" THEN arg.given
    ELSE [arg.given EXCEPT !.useTransaction = IF @ = Undefined THEN Bool(TRUE) ELSE @]

(***************************************************************************)
(* Results of a call.                                                      *)
(***************************************************************************)
Result(kind, value, error, lease) ==
    [kind |-> kind, value |-> value, error |-> error, lease |-> lease]

Pending == Result("pending", "", NoError, 0)
ReturnNull == Result("null", "", NoError, 0)
ReturnValue(v) == Result("value", v, NoError, 0)
ReturnLease(c) == Result("lease", "", NoError, c)
Throw(e) == Result("throw", "", e, 0)

WorkValues == {"rows", "count"}

Clients == 1..MaxClients

\* one call of handler() ("run") or of getConnection() ("acquire"), not yet started
NewCall(kind, arg) ==
    [kind |-> kind, arg |-> arg, option |-> NoOptions, pc |-> "idle",
     attempt |-> 0, conn |-> 0, leased |-> FALSE,
     caught |-> NoError, sleepFor |-> 0, slept |-> 0, connects |-> 0, tooMany |-> 0,
     err |-> NoError, response |-> "", trace |-> <<>>,
     releases |-> 0, returned |-> 0, relStamp |-> 0, relTime |-> 0,
     sqlLogged |-> FALSE, rollbackLogged |-> FALSE,
     result |-> Pending]

NoCalls ==
    /\ config = Config(Undefined, Undefined)
    /\ now = CleanupInterval
    /\ out = [c \in Clients |-> FALSE]
    /\ lastUse = [c \in Clients |-> 0]
    /\ proc = <<>>

NotCompiled == [done |-> FALSE, sql |-> <<>>, params |-> <<>>]

\* a builder of one kind, as its constructor leaves it
NewBuilder(kind) ==
    [kind |-> kind, values |-> Null, filtered |-> FALSE,
     limitCount |-> Undefined, offsetCount |-> Undefined]

\* nothing was passed to connection.query yet
NotSent == [done |-> FALSE, threw |-> "", sql |-> <<>>, params |-> <<>>, bound |-> FALSE]

NoBuilder ==
    /\ builder = NewBuilder("none")
    /\ sent = NotSent

NoCompile ==
    /\ whereInput = Null
    /\ firstIndex = 1
    /\ wraps = 0
    /\ compiled = NotCompiled
    /\ NoBuilder

(***************************************************************************)
(* transaction.ts: handler(), from the return of getConnection() to the    *)
(* first await.  pr is the call's record, c the client or 0 for null.      *)
(***************************************************************************)
\* getConnection() has returned: its locals and counters are gone
Returned(pr) ==
    [pr EXCEPT !.attempt = 0, !.caught = NoError, !.sleepFor = 0,
               !.slept = 0, !.connects = 0, !.tooMany = 0]

\* (mutant) a missing lease is always answered with an error, whatever the option says
AfterGetConnectionLoud(pr, c) ==
    IF c = 0
    THEN [Returned(pr) EXCEPT !.pc = "done", !.result = Throw(NoConnectionError)]
    ELSE IF Truthy(pr.option.useTransaction)
         THEN [Returned(pr) EXCEPT !.leased = TRUE, !.pc = "begin", !.trace = Append(@, "BEGIN")]
         ELSE [Returned(pr) EXCEPT !.leased = TRUE, !.pc = "work", !.trace = Append(@, "WORK")]

AfterGetConnection(pr, c) ==
    IF c = 0
    THEN [Returned(pr) EXCEPT !.pc = "done",
                              !.result = IF Truthy(pr.option.throwError)
                                         THEN Throw(NoConnectionError) ELSE ReturnNull]
    ELSE IF Truthy(pr.option.useTransaction)
         THEN [Returned(pr) EXCEPT !.leased = TRUE, !.pc = "begin", !.trace = Append(@, "BEGIN")]
         ELSE [Returned(pr) EXCEPT !.leased = TRUE, !.pc = "work", !.trace = Append(@, "WORK")]

(***************************************************************************)
(* connection.ts: getConnection().                                         *)
(***************************************************************************)
\* getConnection returns c (0: null) to its caller
GetConnectionReturns(pr, c) ==
    IF pr.kind = "acquire"
    THEN [pr EXCEPT !.pc = "done", !.result = IF c = 0 THEN ReturnNull ELSE ReturnLease(c)]
    ELSE AfterGetConnection(pr, c)

\* the for loop's test, and pool.connect() of the attempt
NextAttempt(pr, attempt) ==
    IF attempt <= maxRetries
    THEN [pr EXCEPT !.pc = "connecting", !.attempt = attempt, !.connects = @ + 1,
                    !.caught = NoError, !.sleepFor = 0]
    ELSE GetConnectionReturns([pr EXCEPT !.attempt = attempt, !.caught = NoError, !.sleepFor = 0], 0)

\* the catch block of an attempt
CatchAttempt(pr, e) ==
    LET pr1 == [pr EXCEPT !.caught = e, !.conn = 0,
                          !.tooMany = @ + (IF isTooManyConnections(e) THEN 1 ELSE 0)]
    IN IF GivesUp(pr.attempt, e)
       THEN GetConnectionReturns(pr1, 0)
       ELSE [pr1 EXCEPT !.pc = "sleeping", !.sleepFor = BackoffDelay(baseDelay, pr.attempt)]

\* handler(work, option) is called and calls getConnection()
CallRun(p) ==
    /\ proc[p].pc = "idle"
    /\ proc[p].kind = "run"
    /\ proc' = [proc EXCEPT ![p] = NextAttempt([@ EXCEPT !.option = ResolveOption(proc[p].arg)], 0)]
    /\ UNCHANGED <<config, now, out, lastUse, compVars>>

\* getConnection() is called by another caller (repository.getConnection)
CallAcquire(p) ==
    /\ proc[p].pc = "idle"
    /\ proc[p].kind = "acquire"
    /\ proc' = [proc EXCEPT ![p] = NextAttempt(@, 0)]
    /\ UNCHANGED <<config, now, out, lastUse, compVars>>

\* pool.connect() resolves with a client that was idle, and SELECT 1 is sent
ConnectOk(p) ==
    /\ proc[p].pc = "connecting"
    /\ \E c \in Clients :
          /\ ~out[c]
          /\ out' = [out EXCEPT ![c] = TRUE]
          /\ proc' = [proc EXCEPT ![p] = [@ EXCEPT !.pc = "probing", !.conn = c]]
    /\ UNCHANGED <<config, now, lastUse, compVars>>

\* pool.connect() rejects
ConnectFail(p) ==
    /\ proc[p].pc = "connecting"
    /\ \E e \in PoolErrors : proc' = [proc EXCEPT ![p] = CatchAttempt(@, e)]
    /\ UNCHANGED <<config, now, out, lastUse, compVars>>

\* SELECT 1 resolves: the client is tagged and returned
ProbeOk(p) ==
    /\ proc[p].pc = "probing"
    /\ lastUse' = [lastUse EXCEPT ![proc[p].conn] = now]
    /\ proc' = [proc EXCEPT ![p] = GetConnectionReturns(@, @.conn)]
    /\ UNCHANGED <<config, now, out, compVars>>

\* (mutant) SELECT 1 rejects and the client is kept
ProbeFailKeeps(p) ==
    /\ proc[p].pc = "probing"
    /\ proc' = [proc EXCEPT ![p] = CatchAttempt(@, DeadConnectionError)]
    /\ UNCHANGED <<config, now, out, lastUse, compVars>>

\* SELECT 1 rejects: the client is released (a throwing release is ignored)
ProbeFail(p) ==
    /\ proc[p].pc = "probing"
    /\ out' = [out EXCEPT ![proc[p].conn] = FALSE]
    /\ proc' = [proc EXCEPT ![p] = CatchAttempt(@, DeadConnectionError)]
    /\ UNCHANGED <<config, now, lastUse, compVars>>

\* the backoff timer fires
SleepDone(p) ==
    /\ proc[p].pc = "sleeping"
    /\ proc' = [proc EXCEPT ![p] =
                  NextAttempt([@ EXCEPT !.slept = @ + proc[p].sleepFor], proc[p].attempt + 1)]
    /\ UNCHANGED <<config, now, out, lastUse, compVars>>

(***************************************************************************)
(* transaction.ts: handler(), after the lease.                             *)
(***************************************************************************)
\* lines 61-96: what the catch block resolves with
CatchResult(option, e) ==
    IF isDbError(e)
    THEN IF Truthy(option.throwError) THEN Throw(DatabaseError(e)) ELSE ReturnNull
    ELSE IF Truthy(option.throwError) THEN Throw(e) ELSE ReturnNull

\* client.release() called by p on its lease c: its effect on the call's record
ReleaseCalled(pr, res) ==
    [pr EXCEPT !.pc = "done",
               !.trace = Append(@, "RELEASE"),
               !.releases = @ + 1,
               !.returned = @ + (IF out[pr.conn] THEN 1 ELSE 0),
               !.relTime = now,
               !.result = IF out[pr.conn] THEN res ELSE Throw(AlreadyReleasedError)]

\* lines 97-101: the finally block, then the call resolves with res
Finally(p, pr, res) ==
    /\ lastUse' = [lastUse EXCEPT ![pr.conn] = now]
    /\ out' = [out EXCEPT ![pr.conn] = FALSE]
    /\ proc' = [proc EXCEPT ![p] = ReleaseCalled([pr EXCEPT !.relStamp = now], res)]

\* lines 61-96, then finally
Resolve(p, pr) ==
    Finally(p,
            [pr EXCEPT !.sqlLogged = isDbError(pr.err) /\ Truthy(pr.option.printSqlError)],
            CatchResult(pr.option, pr.err))

\* (mutant) a failure of the work or of COMMIT runs the work once more
CatchInvokesAgain(p, e) ==
    IF Len(SelectSeq(proc[p].trace, LAMBDA step : step = "WORK")) < 2
    THEN /\ proc' = [proc EXCEPT ![p] = [@ EXCEPT !.err = e, !.pc = "work",
                                                  !.trace = Append(@, "WORK")]]
         /\ UNCHANGED <<out, lastUse>>
    ELSE Resolve(p, [proc[p] EXCEPT !.err = e])

\* lines 51-59: the catch block is entered with e
Catch(p, e) ==
    LET pr == [proc[p] EXCEPT !.err = e]
    IN IF Truthy(pr.option.useTransaction) /\ Truthy(pr.option.rollbackIfError)
       THEN /\ proc' = [proc EXCEPT ![p] = [pr EXCEPT !.pc = "rollback",
                                                      !.trace = Append(@, "ROLLBACK")]]
            /\ UNCHANGED <<out, lastUse>>
       ELSE Resolve(p, pr)

BeginOk(p) ==
    /\ proc[p].pc = "begin"
    /\ proc' = [proc EXCEPT ![p] = [@ EXCEPT !.pc = "work", !.trace = Append(@, "WORK")]]
    /\ UNCHANGED <<config, now, out, lastUse, compVars>>

\* lines 36-42: BEGIN rejects
BeginFail(p) ==
    /\ proc[p].pc = "begin"
    /\ \E e \in QueryErrors :
          proc' = [proc EXCEPT ![p] =
                     ReleaseCalled([@ EXCEPT !.err = e, !.relStamp = lastUse[proc[p].conn]],
                                   IF Truthy(@.option.throwError) THEN Throw(e) ELSE ReturnNull)]
    /\ out' = [out EXCEPT ![proc[p].conn] = FALSE]
    /\ UNCHANGED <<config, now, lastUse, compVars>>

\* the caller's work resolves
WorkOk(p) ==
    /\ proc[p].pc = "work"
    /\ \E v \in WorkValues :
          LET pr == [proc[p] EXCEPT !.response = v]
          IN IF Truthy(pr.option.useTransaction)
             THEN /\ proc' = [proc EXCEPT ![p] = [pr EXCEPT !.pc = "commit",
                                                            !.trace = Append(@, "COMMIT")]]
                  /\ UNCHANGED <<out, lastUse>>
             ELSE Finally(p, pr, ReturnValue(v))
    /\ UNCHANGED <<config, now, compVars>>

\* the caller's work rejects
WorkFail(p) ==
    /\ proc[p].pc = "work"
    /\ \E e \in WorkErrors : Catch(p, e)
    /\ UNCHANGED <<config, now, compVars>>

CommitOk(p) ==
    /\ proc[p].pc = "commit"
    /\ Finally(p, proc[p], ReturnValue(proc[p].response))
    /\ UNCHANGED <<config, now, compVars>>

CommitFail(p) ==
    /\ proc[p].pc = "commit"
    /\ \E e \in QueryErrors : Catch(p, e)
    /\ UNCHANGED <<config, now, compVars>>

RollbackOk(p) ==
    /\ proc[p].pc = "rollback"
    /\ Resolve(p, proc[p])
    /\ UNCHANGED <<config, now, compVars>>

\* lines 55-58: ROLLBACK rejects; the failure is logged
RollbackFail(p) ==
    /\ proc[p].pc = "rollback"
    /\ Resolve(p, [proc[p] EXCEPT !.rollbackLogged = TRUE])
    /\ UNCHANGED <<config, now, compVars>>

(***************************************************************************)
(* connection.ts: the callback startConnectionCleanup() runs every         *)
(* cleanupInterval.  A client whose _lastUse is older than idleTimeout is  *)
(* released; the release of a client that is not checked out throws and is *)
(* ignored.  (No client of the model is ending or destroyed.)              *)
(***************************************************************************)
Cleanup ==
    /\ now < MaxTicks * CleanupInterval
    /\ now' = now + CleanupInterval
    /\ out' = [c \in Clients |->
                 IF lastUse[c] # 0 /\ now' - lastUse[c] > idleTimeout THEN FALSE ELSE out[c]]
    /\ UNCHANGED <<config, lastUse, proc, compVars>>

(***************************************************************************)
(* Specifications.                                                         *)
(***************************************************************************)
StartPool ==
    /\ now = CleanupInterval
    /\ out = [c \in Clients |-> FALSE]
    /\ lastUse = [c \in Clients |-> 0]

\* one handler() call, of any form
Init ==
    /\ config = Config(Num(1), Undefined)
    /\ StartPool
    /\ \E arg \in CallForms : proc = [p \in {1} |-> NewCall("run", arg)]
    /\ NoCompile

\* two concurrent handler() calls: one of any of these forms, one handler(work)
ConcCallForms ==
    { [form |-> "default", given |-> NoOptions],
      [form |-> "builder", given |-> NoOptions],
      [form |-> "direct",
       given |-> [NoOptions EXCEPT !.useTransaction = Bool(TRUE), !.throwError = Bool(FALSE)]] }

InitConc ==
    /\ config = Config(Num(1), Undefined)
    /\ StartPool
    /\ \E a1 \in ConcCallForms :
          proc = [p \in {1, 2} |-> NewCall("run", IF p = 1 THEN a1 ELSE [form |-> "default", given |-> NoOptions])]
    /\ NoCompile

\* one getConnection() call, under any configuration
RetryCounts == {Undefined, Num(0), Num(1), Num(2), Num(3)}
RetryDelays == {Undefined, Num(0), Num(1), Num(250)}

InitAcq ==
    /\ \E count \in RetryCounts, delay \in RetryDelays : config = Config(count, delay)
    /\ StartPool
    /\ proc = [p \in {1} |-> NewCall("acquire", [form |-> "default", given |-> NoOptions])]
    /\ NoCompile

Next ==
    \/ \E p \in DOMAIN proc : CallRun(p)
    \/ \E p \in DOMAIN proc : ConnectOk(p)
    \/ \E p \in DOMAIN proc : ConnectFail(p)
    \/ \E p \in DOMAIN proc : ProbeOk(p)
    \/ \E p \in DOMAIN proc : ProbeFail(p)
    \/ \E p \in DOMAIN proc : SleepDone(p)
    \/ \E p \in DOMAIN proc : BeginOk(p)
    \/ \E p \in DOMAIN proc : BeginFail(p)
    \/ \E p \in DOMAIN proc : WorkOk(p)
    \/ \E p \in DOMAIN proc : WorkFail(p)
    \/ \E p \in DOMAIN proc : CommitOk(p)
    \/ \E p \in DOMAIN proc : CommitFail(p)
    \/ \E p \in DOMAIN proc : RollbackOk(p)
    \/ \E p \in DOMAIN proc : RollbackFail(p)
    \/ Cleanup

NextAcq ==
    \/ \E p \in DOMAIN proc : CallAcquire(p)
    \/ \E p \in DOMAIN proc : ConnectOk(p)
    \/ \E p \in DOMAIN proc : ConnectFail(p)
    \/ \E p \in DOMAIN proc : ProbeOk(p)
    \/ \E p \in DOMAIN proc : ProbeFail(p)
    \/ \E p \in DOMAIN proc : SleepDone(p)
    \/ Cleanup

Spec == Init /\ [][Next]_vars

SpecConc == InitConc /\ [][Next]_vars

SpecAcq == InitAcq /\ [][NextAcq]_vars

InitCompile ==
    /\ whereInput \in Leaves \cup {and(<<>>), or(<<>>), not(<<>>)} \cup FlatMaps \cup {Null, Undefined}
    /\ firstIndex \in 1..MaxStart
    /\ wraps = 0
    /\ compiled = NotCompiled
    /\ NoBuilder
    /\ NoCalls

CanWrap ==
    /\ ~compiled.done
    /\ wraps < MaxWraps
    /\ whereInput.k = "obj"
    /\ ~IsFlat(whereInput)

\* and(...), or(...) around the current node, alone or beside a sibling
WrapAnd ==
    /\ CanWrap
    /\ \E cs \in {<<whereInput>>} \cup {<<whereInput, s>> : s \in Siblings} \cup {<<s, whereInput>> : s \in Siblings} :
          whereInput' = and(cs)
    /\ wraps' = wraps + 1
    /\ UNCHANGED <<firstIndex, compiled, buildVars, runVars>>

WrapOr ==
    /\ CanWrap
    /\ \E cs \in {<<whereInput>>} \cup {<<whereInput, s>> : s \in Siblings} \cup {<<s, whereInput>> : s \in Siblings} :
          whereInput' = or(cs)
    /\ wraps' = wraps + 1
    /\ UNCHANGED <<firstIndex, compiled, buildVars, runVars>>

\* not(...) takes any number of arguments
WrapNot ==
    /\ CanWrap
    /\ \E cs \in {<<whereInput>>} \cup {<<whereInput, s>> : s \in Siblings} :
          whereInput' = not(cs)
    /\ wraps' = wraps + 1
    /\ UNCHANGED <<firstIndex, compiled, buildVars, runVars>>

Compile ==
    /\ ~compiled.done
    /\ compiled' = [done |-> TRUE] @@ buildWhereClause(whereInput, firstIndex)
    /\ UNCHANGED <<whereInput, firstIndex, wraps, buildVars, runVars>>

NextCompile == WrapAnd \/ WrapOr \/ WrapNot \/ Compile

SpecCompile == InitCompile /\ [][NextCompile]_vars

(***************************************************************************)
(* A caller that compiles a tree it wrote in one expression: a logical     *)
(* node over one or two nodes, themselves leaves or logical nodes over     *)
(* leaves.                                                                 *)
(***************************************************************************)
Types == {"AND", "OR", "NOT"}

\* argument lists of and(), or(), not()
Arguments(nodes) == {<<x>> : x \in nodes} \cup {<<x, y>> : x, y \in nodes}

Shallow == { Logical(type, cs) : type \in Types, cs \in Arguments(Leaves \cup Siblings) \cup {<<>>} }

Nested ==
    { Logical(type, cs) :
        type \in Types,
        cs \in UNION { {<<d>>, <<d, s>>, <<s, d>>} : d \in Shallow, s \in Siblings } }

InitTrees ==
    /\ whereInput \in Shallow \cup Nested
    /\ firstIndex \in 1..MaxStart
    /\ wraps = 0
    /\ compiled = NotCompiled
    /\ NoBuilder
    /\ NoCalls

SpecTrees == InitTrees /\ [][Compile]_vars

(***************************************************************************)
(* The query builders (select, selectOne, count, update, delete): the      *)
(* callback each execute() hands to handler(), up to connection.query.     *)
(* The table is "t"; no columns, RETURNING columns or ORDER BY are chosen. *)
(***************************************************************************)
\* connection.query(sql, params); bound is FALSE when no params were passed
Query(sql, params, bound) ==
    [done |-> TRUE, threw |-> "", sql |-> sql, params |-> params, bound |-> bound]

Threw(message) ==
    [done |-> TRUE, threw |-> message, sql |-> <<>>, params |-> <<>>, bound |-> FALSE]

\* { ...a, ...b }: spreading a value that is not an object adds nothing
Spread(a, b) ==
    IF b.k # "obj" THEN a
    ELSE Obj([i \in 1..Len(a.e) |->
                 IF Has(b, a.e[i][1]) THEN <<a.e[i][1], Get(b, a.e[i][1])>> ELSE a.e[i]]
             \o SelectSeq(b.e, LAMBDA en : ~Has(a, en[1])))

\* limit.ts
buildLimitClause(limit) ==
    IF limit # Undefined THEN Txt("LIMIT " \o JsString(limit)) ELSE <<>>

buildOffsetClause(offset) ==
    IF offset # Undefined THEN Txt("OFFSET " \o JsString(offset)) ELSE <<>>

\* queryParts.filter((part) => part !== "").join(" ")
RECURSIVE JoinParts(_)
JoinParts(parts) ==
    IF parts = <<>> THEN <<>>
    ELSE LET rest == JoinParts(Tail(parts))
         IN IF parts[1] = <<>> THEN rest
            ELSE IF rest = <<>> THEN parts[1]
            ELSE Cat3(parts[1], Txt(" "), rest)

SelectQuery(where, limitCount, offsetCount) ==
    LET built == buildWhereClause(where, 1)
    IN Query(JoinParts(<<Txt("SELECT *"), Txt("FROM t"), built.sql, <<>>,
                         buildLimitClause(limitCount), buildOffsetClause(offsetCount)>>),
             built.params, TRUE)

SelectOneQuery(where) ==
    LET built == buildWhereClause(where, 1)
    IN Query(Cat(Txt("SELECT * FROM t "), built.sql), built.params, TRUE)

CountQuery(where) ==
    LET whereClause == buildWhereClause(where, 1)
    IN Query(Cat(Txt("SELECT COUNT(*) FROM t "),
                 IF whereClause.sql # <<>> THEN Cat(Txt("WHERE "), whereClause.sql) ELSE <<>>),
             <<>>, FALSE)

DeleteQuery(where) ==
    LET built == buildWhereClause(where, 1)
        query == Txt("DELETE FROM t")
    IN Query(IF built.sql # <<>> THEN Cat3(query, Txt(" "), built.sql) ELSE query,
             built.params, TRUE)

\* Object.entries(data).filter(([, value]) => value !== undefined)
DefinedOf(data) == SelectSeq(data.e, LAMBDA en : en[2] # Undefined)

\* the loop over the entries, and setClauses.join(", ")
RECURSIVE SetClauses(_, _)
SetClauses(entries, paramIndex) ==
    IF entries = <<>> THEN <<>>
    ELSE Cat(Cat3(Txt(entries[1][1] \o " = "), Ph(paramIndex, entries[1][2]),
                  IF Len(entries) = 1 THEN <<>> ELSE Txt(", ")),
             SetClauses(Tail(entries), paramIndex + 1))

\* (mutant) the WHERE clause is numbered from 1 again
ParamIndexRestarts(entries) == 1

\* paramIndex after the loop over the entries
ParamIndexAfterSet(entries) == 1 + Len(entries)

UpdateQuery(values, where) ==
    IF ~Truthy(values) THEN Threw("Update values are not set.")
    ELSE LET entries == DefinedOf(values)
         IN IF Len(entries) = 0 THEN Threw("No columns to update.")
            ELSE LET setSql == SetClauses(entries, 1)
                     params == [i \in 1..Len(entries) |-> entries[i][2]]
                     built == buildWhereClause(where, ParamIndexAfterSet(entries))
                     query == Cat(Txt("UPDATE t SET "), setSql)
                     filtered == IF built.sql # <<>>
                                 THEN Cat3(query, Txt(" "), built.sql) ELSE query
                 IN Query(Cat(filtered, Txt(" RETURNING *")), params \o built.params, TRUE)

\* the builders' callers
Kinds == {"select", "selectOne", "count", "update", "delete"}

\* the builders whose where() merges into whereConditions
Merging == {"select", "selectOne", "count"}

Trees ==
    { and(<<eq("a", Num(1)), or(<<gt("b", Num(2)), lt("b", Num(10))>>)>>),
      not(<<inArray("x", <<>>)>>),
      or(<<inArray("x", <<Num(1), Null>>), and(<<>>), between("b", Num(2), Num(10))>>) }

WhereInputs == Leaves \cup Trees \cup FlatMaps \cup {Null, Undefined}

SetValues ==
    { Obj(<< <<"name", Num(5)>> >>),
      Obj(<< <<"name", Num(5)>>, <<"age", Undefined>>, <<"tags", Null>> >>),
      Obj(<< <<"age", Undefined>> >>) }

InitBuild ==
    /\ \E kind \in Kinds :
          /\ builder = NewBuilder(kind)
          /\ whereInput = IF kind \in Merging THEN Obj(<<>>) ELSE Null
    /\ sent = NotSent
    /\ firstIndex = 1
    /\ wraps = 0
    /\ compiled = NotCompiled
    /\ NoCalls

\* builder.where(where)
Where ==
    /\ ~sent.done
    /\ ~builder.filtered
    /\ \E where \in WhereInputs :
          whereInput' = IF builder.kind \in Merging THEN Spread(whereInput, where) ELSE where
    /\ builder' = [builder EXCEPT !.filtered = TRUE]
    /\ UNCHANGED <<sent, firstIndex, wraps, compiled, runVars>>

\* builder.set(values)
Set ==
    /\ ~sent.done
    /\ builder.kind = "update"
    /\ builder.values = Null
    /\ \E values \in SetValues : builder' = [builder EXCEPT !.values = values]
    /\ UNCHANGED <<sent, whereInput, firstIndex, wraps, compiled, runVars>>

\* builder.limit(count)
Limit ==
    /\ ~sent.done
    /\ builder.kind = "select"
    /\ builder.limitCount = Undefined
    /\ builder' = [builder EXCEPT !.limitCount = Num(10)]
    /\ UNCHANGED <<sent, whereInput, firstIndex, wraps, compiled, runVars>>

\* builder.offset(count)
Offset ==
    /\ ~sent.done
    /\ builder.kind = "select"
    /\ builder.offsetCount = Undefined
    /\ builder' = [builder EXCEPT !.offsetCount = Num(20)]
    /\ UNCHANGED <<sent, whereInput, firstIndex, wraps, compiled, runVars>>

\* builder.execute(): the statement and the params connection.query is called with
ExecuteSelect ==
    /\ ~sent.done
    /\ builder.kind = "select"
    /\ sent' = SelectQuery(whereInput, builder.limitCount, builder.offsetCount)
    /\ UNCHANGED <<builder, whereInput, firstIndex, wraps, compiled, runVars>>

ExecuteSelectOne ==
    /\ ~sent.done
    /\ builder.kind = "selectOne"
    /\ sent' = SelectOneQuery(whereInput)
    /\ UNCHANGED <<builder, whereInput, firstIndex, wraps, compiled, runVars>>

ExecuteCount ==
    /\ ~sent.done
    /\ builder.kind = "count"
    /\ sent' = CountQuery(whereInput)
    /\ UNCHANGED <<builder, whereInput, firstIndex, wraps, compiled, runVars>>

ExecuteUpdate ==
    /\ ~sent.done
    /\ builder.kind = "update"
    /\ sent' = UpdateQuery(builder.values, whereInput)
    /\ UNCHANGED <<builder, whereInput, firstIndex, wraps, compiled, runVars>>

ExecuteDelete ==
    /\ ~sent.done
    /\ builder.kind = "delete"
    /\ sent' = DeleteQuery(whereInput)
    /\ UNCHANGED <<builder, whereInput, firstIndex, wraps, compiled, runVars>>

NextBuild ==
    \/ Where
    \/ Set
    \/ Limit
    \/ Offset
    \/ ExecuteSelect
    \/ ExecuteSelectOne
    \/ ExecuteCount
    \/ ExecuteUpdate
    \/ ExecuteDelete

SpecBuild == InitBuild /\ [][NextBuild]_vars

(***************************************************************************)
(* Claims about the compiler (checked under SpecCompile).                  *)
(***************************************************************************)
IsNode(w) == w.k = "obj" /\ ~IsFlat(w)

\* C5: for every condition tree and every startIndex s, the compiled SQL's
\* placeholders are exactly $s, $s+1, ..., $s+n-1, once each and in increasing
\* left-to-right order, n being the number of params, and params[i] is the
\* value the placeholder $(s+i) was generated for.
C5_PlaceholdersMatchParams ==
    (compiled.done /\ IsNode(whereInput)) =>
        LET phs == Placeholders(compiled.sql)
            n == Len(compiled.params)
        IN /\ Len(phs) = n
           /\ \A i \in 1..n :
                 /\ phs[i].n = firstIndex + i - 1
                 /\ phs[i].v = compiled.params[i]

C5_Witness ==
    /\ compiled.done
    /\ IsNode(whereInput)
    /\ wraps = 2
    /\ firstIndex = 2
    /\ Len(compiled.params) >= 4
    /\ \E i \in 1..Len(compiled.params) : compiled.params[i] = Null

\* the flat map {id: 5, name: undefined, tags: [1, 2]}
C6_Map ==
    Obj(<< <<"id", Num(5)>>, <<"name", Undefined>>, <<"tags", Arr(<<Num(1), Num(2)>>)>> >>)

\* the number of entries of a flat map whose value is not undefined
DefinedEntries(w) == Len(SelectSeq(w.e, LAMBDA en : en[2] # Undefined))

\* buildWhereClause takes w for a flat map: no truthy `type` or `field` entry
TakenAsFlat(w) == IsFlat(w) /\ ~Truthy(Get(w, "type")) /\ ~Truthy(Get(w, "field"))

\* the condition one entry of a flat map stands for, numbered from index
EntryText(en, index) ==
    IF IsArray(en[2])
    THEN IF Len(en[2].a) = 0 THEN Txt("1 = 0")
         ELSE Cat3(Txt(en[1] \o " IN ("),
                   <<[t |-> "ph", n |-> index]>> \o
                     (IF Len(en[2].a) = 2 THEN Txt(", ") \o <<[t |-> "ph", n |-> index + 1]>> ELSE <<>>),
                   Txt(")"))
    ELSE IF en[2] = Null THEN Txt(en[1] \o " IS NULL")
    ELSE Cat(Txt(en[1] \o " = "), <<[t |-> "ph", n |-> index]>>)

EntryParams(en) == IF IsArray(en[2]) THEN en[2].a ELSE IF en[2] = Null THEN <<>> ELSE <<en[2]>>

\* the defined entries' conditions joined by " AND ", each wrapped by open and close
RECURSIVE JoinedEntries(_, _, _, _, _)
JoinedEntries(entries, index, open, close, first) ==
    IF entries = <<>> THEN <<>>
    ELSE IF entries[1][2] = Undefined
         THEN JoinedEntries(Tail(entries), index, open, close, first)
         ELSE Cat(Cat3(Txt((IF first THEN "" ELSE " AND ") \o open),
                       EntryText(entries[1], index), Txt(close)),
                  JoinedEntries(Tail(entries), index + Len(EntryParams(entries[1])),
                                open, close, FALSE))

Runs == {p \in DOMAIN proc : proc[p].kind = "run"}

\* position i of the trace of call p holds step
At(p, i, step) == i \in DOMAIN proc[p].trace /\ proc[p].trace[i] = step

Did(p, step) == \E i \in DOMAIN proc[p].trace : proc[p].trace[i] = step

\* C1: every handler() call that obtained a lease has, when it resolves,
\* returned that lease to the pool exactly once, on every path (work success,
\* work failure, COMMIT failure, BEGIN failure, ROLLBACK failure): never zero
\* times, never twice.
C1_ReleasedExactlyOnce ==
    \A p \in Runs :
        (proc[p].pc = "done" /\ proc[p].leased) =>
            (proc[p].releases = 1 /\ proc[p].returned = 1)

\* the call holds a lease: getConnection() returned it, handler() has not released it
Holding(p) == proc[p].leased /\ proc[p].pc \in {"begin", "work", "commit", "rollback"}

\* C2: while a handler() call holds a lease nobody else returns its client
\* to the pool (the idle sweep included), and no two concurrent calls hold the
\* same client.
C2_LeaseHeldExclusively ==
    \A p \in Runs :
        Holding(p) =>
            /\ out[proc[p].conn]
            /\ \A q \in Runs \ {p} : Holding(q) => proc[q].conn # proc[p].conn

\* handler(work, {useTransaction: true, throwError: false})
C3_Call ==
    [form |-> "direct",
     given |-> [NoOptions EXCEPT !.useTransaction = Bool(TRUE), !.throwError = Bool(FALSE)]]

\* C3: handler(work, {useTransaction: true, throwError: false}) whose work
\* fails with a database error of code 23505 returns null, has issued ROLLBACK
\* on the lease before releasing it, and throws nothing.
C3_QuietUniqueViolation ==
    \A p \in Runs :
        (proc[p].arg = C3_Call /\ proc[p].pc = "done" /\ proc[p].err.code = "23505") =>
            /\ proc[p].result = ReturnNull
            /\ \E i, j \in DOMAIN proc[p].trace :
                  i < j /\ At(p, i, "ROLLBACK") /\ At(p, j, "RELEASE")

\* C4: every flag the caller did not give behaves as true, whether no option
\* object is passed or one that sets only some flags, for handler() and for
\* the builders' execute(): a call answers a failure with null only when the
\* caller set throwError to false, an unspecified useTransaction opens a
\* transaction, an unspecified rollbackIfError rolls a failed transaction
\* back, and an unspecified printSqlError logs the SQL error.
C4_FailLoudByDefault ==
    \A p \in Runs :
        proc[p].pc = "done" =>
            LET given == proc[p].arg.given
            IN /\ proc[p].result.kind = "null" => given.throwError = Bool(FALSE)
               /\ (proc[p].leased /\ given.useTransaction = Undefined) => At(p, 1, "BEGIN")
               /\ (/\ Did(p, "WORK")
                   /\ proc[p].err # NoError
                   /\ given.useTransaction # Bool(FALSE)
                   /\ given.rollbackIfError = Undefined) => Did(p, "ROLLBACK")
               /\ (/\ Did(p, "WORK")
                   /\ isDbError(proc[p].err)
                   /\ given.printSqlError = Undefined) => proc[p].sqlLogged

\* C7: on every path on which handler() releases its lease, the path where
\* BEGIN fails included, the client's _lastUse is the time of the release.
C7_StampedAtRelease ==
    \A p \in Runs :
        proc[p].releases >= 1 => proc[p].relStamp = proc[p].relTime

(***************************************************************************)
(* Claims about getConnection() (checked under SpecAcq).                   *)
(***************************************************************************)
Acquires == {p \in DOMAIN proc : proc[p].kind = "acquire"}

Transient(e) == isTooManyConnections(e) \/ isConnectionLost(e)

\* a sleeping call sleeps baseDelay * 2^attempt, after a transient failure of
\* an attempt that is not the last
C8_SleepsExponential ==
    \A p \in Acquires :
        proc[p].pc = "sleeping" =>
            /\ proc[p].sleepFor = baseDelay * 2^(proc[p].attempt)
            /\ proc[p].attempt < maxRetries
            /\ Transient(proc[p].caught)

\* two "too many clients" failures, then a client on the third attempt
C8_Scenario ==
    \A p \in Acquires :
        (/\ proc[p].pc = "done"
         /\ proc[p].result.kind = "lease"
         /\ maxRetries = 3
         /\ proc[p].connects = 3
         /\ proc[p].tooMany = 2) => proc[p].slept = baseDelay * (2^0 + 2^1)

\* a transient failure of an attempt that is not the last starts the sleep,
\* and the end of the sleep starts the next attempt
C8_Step ==
    \A p \in Acquires :
        /\ (/\ proc[p].pc \in {"connecting", "probing"}
            /\ proc'[p] # proc[p]
            /\ proc'[p].caught # NoError
            /\ Transient(proc'[p].caught)
            /\ proc[p].attempt < maxRetries) =>
               /\ proc'[p].pc = "sleeping"
               /\ proc'[p].sleepFor = baseDelay * 2^(proc[p].attempt)
        /\ (proc[p].pc = "sleeping" /\ proc'[p] # proc[p]) =>
               /\ proc'[p].pc = "connecting"
               /\ proc'[p].attempt = proc[p].attempt + 1
               /\ proc'[p].connects = proc[p].connects + 1
               /\ proc'[p].slept = proc[p].slept + baseDelay * 2^(proc[p].attempt)

\* C8: when attempt a (from 0) of getConnection() fails with a transient
\* error (too many connections, connection lost) and a is not the last
\* attempt, getConnection() sleeps exactly baseDelay * 2^a and then makes
\* attempt a + 1; with maxRetries = 3, two "too many clients" failures and a
\* client on the third attempt it returns the client after sleeping
\* baseDelay * (2^0 + 2^1) in all.
C8_Backoff == [](C8_SleepsExponential /\ C8_Scenario) /\ [][C8_Step]_vars

C8_Witness ==
    \E p \in Acquires :
        /\ proc[p].pc = "done"
        /\ proc[p].result.kind = "lease"
        /\ config.connectionRetryCount = Num(3)
        /\ config.connectionRetryDelay = Num(250)
        /\ proc[p].connects = 3
        /\ proc[p].tooMany = 2
        /\ proc[p].slept = 750

\* the configured maximum retry count: connectionRetryCount, 3 when it is not configured
ConfiguredRetries ==
    IF config.connectionRetryCount = Undefined THEN DefaultRetryCount
    ELSE config.connectionRetryCount.n

\* C9: for every configured maximum retry count R >= 0 (R = 0 included, 3
\* when nothing is configured) one getConnection() call makes at most R + 1
\* pool.connect() attempts, and returns null when none of them gave a client.
C9_AttemptsBoundedByConfigured ==
    \A p \in Acquires :
        /\ proc[p].connects <= ConfiguredRetries + 1
        /\ (proc[p].pc = "done" /\ proc[p].result.kind # "lease") => proc[p].result = ReturnNull

\* C10: getConnection() sleeps only when another attempt follows: after a
\* failure that is in neither transient class, or after any failure of the
\* last allowed attempt (attempt R of the configured R), it returns null at
\* once, without a sleep and without another pool.connect().
C10_SleepsOnlyBeforeRetry ==
    \A p \in Acquires :
        /\ proc[p].pc = "sleeping" =>
              (Transient(proc[p].caught) /\ proc[p].attempt < ConfiguredRetries)
        /\ (proc[p].caught # NoError /\ proc[p].pc # "sleeping") => proc[p].pc = "done"

(***************************************************************************)
(* Further claims about handler() (checked under Spec).                    *)
(***************************************************************************)
\* the call of p has resolved after its BEGIN was rejected
BeginFailed(p) == proc[p].pc = "done" /\ At(p, 1, "BEGIN") /\ ~Did(p, "WORK")

\* C11: when useTransaction is set and BEGIN fails, handler() never calls
\* the work, sends neither COMMIT nor ROLLBACK, releases the lease, and
\* resolves per policy: it rethrows the BEGIN error when throwError is set
\* and returns null otherwise.
C11_BeginFailure ==
    \A p \in Runs :
        BeginFailed(p) =>
            /\ proc[p].trace = <<"BEGIN", "RELEASE">>
            /\ proc[p].returned = 1
            /\ proc[p].result = IF Truthy(proc[p].option.throwError)
                                THEN Throw(proc[p].err) ELSE ReturnNull

\* database-origin: the error carries a vendor error code or an SQL-state marker
DbOrigin(e) == e.code # "none" \/ e.sqlState # "none"

\* what the caller of handler() is to get for the failure e under option
PerPolicy(option, e) ==
    IF Truthy(option.throwError)
    THEN IF DbOrigin(e)
         THEN Throw([inst |-> "DatabaseError", message |-> e.message,
                     code |-> e.code, sqlState |-> e.code])
         ELSE Throw(e)
    ELSE ReturnNull

\* C12: when the work fails and the ROLLBACK handler() then attempts fails
\* too, the rollback failure is not raised and does not replace the original
\* failure: the call resolves as it would have had ROLLBACK succeeded, with
\* the original error or its DatabaseError wrapping when throwError is set,
\* with null otherwise.
C12_RollbackFailureNotRaised ==
    \A p \in Runs :
        (proc[p].pc = "done" /\ proc[p].rollbackLogged) =>
            proc[p].result = PerPolicy(proc[p].option, proc[p].err)

\* the call of p has resolved after its work was rejected
WorkFailed(p) ==
    /\ proc[p].pc = "done"
    /\ Did(p, "WORK")
    /\ ~Did(p, "COMMIT")
    /\ proc[p].err # NoError

\* C13: when the work fails under throwError = true the caller gets a
\* DatabaseError with the original error's code and message if and only if
\* the failure is database-origin, and otherwise the very error the work
\* raised; under throwError = false the caller gets null for both kinds and
\* nothing is raised.
C13_LoudOrQuiet ==
    \A p \in Runs :
        WorkFailed(p) =>
            /\ proc[p].option.throwError = Bool(TRUE) =>
                  /\ proc[p].result.kind = "throw"
                  /\ DbOrigin(proc[p].err) =>
                        /\ proc[p].result.error.inst = "DatabaseError"
                        /\ proc[p].result.error.code = proc[p].err.code
                        /\ proc[p].result.error.message = proc[p].err.message
                  /\ ~DbOrigin(proc[p].err) => proc[p].result.error = proc[p].err
            /\ proc[p].option.throwError = Bool(FALSE) => proc[p].result = ReturnNull

\* C14: when getConnection() gives no lease, handler() sends no BEGIN, never
\* calls the work, releases nothing, and resolves per policy: it throws an
\* error when throwError is set and returns null otherwise.
C14_NoLease ==
    \A p \in Runs :
        (proc[p].pc = "done" /\ ~proc[p].leased) =>
            /\ proc[p].trace = <<>>
            /\ proc[p].releases = 0
            /\ proc[p].conn = 0
            /\ proc[p].result = IF Truthy(proc[p].option.throwError)
                                THEN Throw(NoConnectionError) ELSE ReturnNull

C14_Witness ==
    \E p \in Runs :
        /\ proc[p].pc = "done"
        /\ ~proc[p].leased
        /\ proc[p].option.throwError = Bool(FALSE)
        /\ proc[p].option.useTransaction = Bool(TRUE)
        /\ proc[p].result = ReturnNull

\* C19: for every policy and every outcome of the work, COMMIT and ROLLBACK,
\* a lease that handler() releases after BEGIN succeeded on it has had a
\* COMMIT or a ROLLBACK sent on it since that BEGIN.
C19_NoOpenTransactionReleased ==
    \A p \in Runs :
        (proc[p].releases >= 1 /\ At(p, 1, "BEGIN") /\ At(p, 2, "WORK")) =>
            (Did(p, "COMMIT") \/ Did(p, "ROLLBACK"))

(***************************************************************************)
(* Further claims about the compiler (checked under SpecCompile).          *)
(***************************************************************************)
\* the flat map w without the keys whose value is undefined
RemoveUndefined(w) == Obj(SelectSeq(w.e, LAMBDA en : en[2] # Undefined))

\* C15: for every flat filter map, a key whose value is undefined adds
\* neither a clause nor a parameter nor a placeholder number: the map
\* compiles to what the same map without those keys compiles to, and a map
\* whose values are all undefined compiles to empty sql with empty params.
C15_UndefinedKeysIgnored ==
    (compiled.done /\ IsFlat(whereInput)) =>
        LET removed == buildWhereClause(RemoveUndefined(whereInput), firstIndex)
        IN /\ compiled.sql = removed.sql
           /\ compiled.params = removed.params
           /\ DefinedEntries(whereInput) = 0 =>
                 (compiled.sql = <<>> /\ compiled.params = <<>>)

\* an IN or NOT IN leaf with an empty list
IsEmptyListLeaf(n) ==
    /\ n.k = "obj"
    /\ ~Has(n, "type")
    /\ Get(n, "operator") \in {Str("IN"), Str("NOT IN")}
    /\ Get(n, "value") = Arr(<<>>)

\* the constant an empty-list leaf stands for
EmptyListConstant(n) == Txt(IF Get(n, "operator") = Str("IN") THEN "1 = 0" ELSE "1 = 1")

\* a field condition
IsLeaf(n) == n.k = "obj" /\ ~Has(n, "type")

\* an AND or OR node of two children
IsPair(n) ==
    /\ n.k = "obj"
    /\ Get(n, "type") \in {Str("AND"), Str("OR")}
    /\ Len(Get(n, "conditions").a) = 2

JoinerOf(n) == IF Get(n, "type") = Str("AND") THEN " AND " ELSE " OR "

\* C16: a leaf with an empty list compiles to the constant `1 = 0` for IN
\* and `1 = 1` for NOT IN, adds no parameter and does not advance the
\* placeholder index: the next sibling in an enclosing AND/OR takes the
\* placeholder number the empty-list leaf was offered.
C16_EmptyListConstant ==
    compiled.done =>
        /\ IsEmptyListLeaf(whereInput) =>
              /\ compiled.sql = Cat(Txt("WHERE "), EmptyListConstant(whereInput))
              /\ compiled.params = <<>>
        /\ IsPair(whereInput) =>
              LET a == Get(whereInput, "conditions").a[1]
                  b == Get(whereInput, "conditions").a[2]
              IN /\ (IsEmptyListLeaf(a) /\ IsLeaf(b) /\ ~IsEmptyListLeaf(b)) =>
                       LET sibling == buildConditionNode(b, firstIndex)
                       IN /\ compiled.sql =
                                Cat(Cat3(Txt("WHERE ("), EmptyListConstant(a),
                                         Txt(")" \o JoinerOf(whereInput) \o "(")),
                                    Cat(sibling.sql, Txt(")")))
                          /\ compiled.params = sibling.params
                          /\ Placeholders(compiled.sql)[1].n = firstIndex
                 /\ (IsLeaf(a) /\ ~IsEmptyListLeaf(a) /\ IsEmptyListLeaf(b)) =>
                       LET sibling == buildConditionNode(a, firstIndex)
                       IN /\ compiled.sql =
                                Cat(Cat3(Txt("WHERE ("), sibling.sql,
                                         Txt(")" \o JoinerOf(whereInput) \o "(")),
                                    Cat(EmptyListConstant(b), Txt(")")))
                          /\ compiled.params = sibling.params

C16_Witness ==
    /\ compiled.done
    /\ whereInput = or(<<notInArray("x", <<>>), eq("a", Num(1))>>)
    /\ firstIndex = 2
    /\ Render(compiled.sql) =
          << [t |-> "txt", s |-> "WHERE (1 = 1) OR (a = "], [t |-> "ph", n |-> 2],
             [t |-> "txt", s |-> ")"] >>
    /\ compiled.params = <<Num(1)>>

IsLogical(n) == n.k = "obj" /\ Has(n, "type")

\* an AND or OR node with zero children
IsEmptyLogical(n) ==
    /\ IsLogical(n)
    /\ Get(n, "type") \in {Str("AND"), Str("OR")}
    /\ Get(n, "conditions") = Arr(<<>>)

\* the tree n without its empty AND/OR nodes, from the leaves up: an AND/OR
\* loses its empty children, a NOT whose first child is empty is empty
RECURSIVE Strip(_)
Strip(n) ==
    IF ~IsLogical(n) THEN n
    ELSE LET kids == Get(n, "conditions").a
             stripped == [i \in 1..Len(kids) |-> Strip(kids[i])]
         IN IF Get(n, "type") = Str("NOT")
            THEN IF Len(kids) > 0 /\ IsEmptyLogical(stripped[1]) THEN and(<<>>)
                 ELSE not(stripped)
            ELSE Logical(Get(n, "type").s,
                         SelectSeq(stripped, LAMBDA c : ~IsEmptyLogical(c)))

\* the tree n has an AND or OR node with zero children
RECURSIVE HasEmptyLogical(_)
HasEmptyLogical(n) ==
    /\ IsLogical(n)
    /\ \/ IsEmptyLogical(n)
       \/ \E i \in 1..Len(Get(n, "conditions").a) : HasEmptyLogical(Get(n, "conditions").a[i])

\* C17: an AND or OR node with zero children compiles to empty SQL with no
\* parameters at any depth: at top level the result is sql "" (no WHERE);
\* nested, the parent skips it (no empty parentheses, no dangling joiner, no
\* change of the placeholder index), so the tree compiles to what the tree
\* without it compiles to; a parent all of whose children are empty is
\* itself empty.
C17_EmptyLogicalSkipped ==
    (compiled.done /\ IsNode(whereInput) /\ HasEmptyLogical(whereInput)) =>
        LET stripped == Strip(whereInput)
        IN /\ IsEmptyLogical(stripped) => (compiled.sql = <<>> /\ compiled.params = <<>>)
           /\ [sql |-> compiled.sql, params |-> compiled.params]
                 = buildWhereClause(stripped, firstIndex)
           /\ whereInput = or(<<and(<<>>), eq("a", Num(1))>>) =>
                 Render(compiled.sql) =
                    << [t |-> "txt", s |-> "WHERE (a = "], [t |-> "ph", n |-> firstIndex],
                       [t |-> "txt", s |-> ")"] >>

C17_Witness ==
    /\ compiled.done
    /\ whereInput = and(<<and(<<>>), or(<<and(<<>>), lt("b", Num(10))>>)>>)
    /\ firstIndex = 2
    /\ compiled.params = <<Num(10)>>
    /\ Placeholders(compiled.sql)[1].n = 2

\* the clause a flat map stands for: nothing, its one condition, or the
\* conjunction of its conditions
FlatExpected(w, index) ==
    IF DefinedEntries(w) = 0 THEN <<>>
    ELSE IF DefinedEntries(w) = 1
         THEN Cat(Txt("WHERE "), JoinedEntries(w.e, index, "", "", TRUE))
         ELSE Cat(Txt("WHERE "), JoinedEntries(w.e, index, "(", ")", TRUE))

\* C20: for every flat filter map, whatever its keys are named (`type` and
\* `field` included), each key whose value is not undefined contributes
\* exactly one condition on that key: no such key gives no clause, one gives
\* that condition, several give their conjunction; a flat map with a defined
\* value never compiles to an empty filter.
C20_EveryDefinedKeyCounts ==
    (compiled.done /\ IsFlat(whereInput)) =>
        /\ Render(compiled.sql) = FlatExpected(whereInput, firstIndex)
        /\ DefinedEntries(whereInput) >= 1 => compiled.sql # <<>>

(***************************************************************************)
(* AND / OR nodes (checked under SpecTrees).                               *)
(***************************************************************************)
\* the children of an AND / OR node joined as the claim says: each child
\* that built SQL in parentheses, the joiner between them, each child begun
\* where the placeholders of the children before it end
RECURSIVE JoinedChildren(_, _, _, _)
JoinedChildren(children, index, joiner, first) ==
    IF children = <<>> THEN EmptyClause
    ELSE LET built == buildConditionNode(children[1], index)
         IN IF built.sql = <<>>
            THEN JoinedChildren(Tail(children), index, joiner, first)
            ELSE LET rest == JoinedChildren(Tail(children), index + Len(built.params), joiner, FALSE)
                 IN [sql |-> Cat(Cat(IF first THEN <<>> ELSE Txt(joiner),
                                     Cat3(Txt("("), built.sql, Txt(")"))),
                                 rest.sql),
                     params |-> built.params \o rest.params]

IsAndOr(n) == IsNode(n) /\ Get(n, "type") \in {Str("AND"), Str("OR")}

C22_Tree == and(<<eq("a", Num(1)), or(<<gt("b", Num(2)), lt("b", Num(10))>>)>>)

\* C22: an AND / OR node compiles its children in order, puts each non-empty
\* child's SQL in parentheses, joins them with " AND " / " OR ", concatenates
\* their params in the same order and starts each child at the index where
\* the previous non-empty child stopped; and(eq("a",1), or(gt("b",2),
\* lt("b",10))) compiled from 1 is
\* "WHERE (a = $1) AND ((b > $2) OR (b < $3))" with params [1, 2, 10].
C22_AndOrJoinsChildren ==
    /\ (compiled.done /\ IsAndOr(whereInput)) =>
          LET joined == JoinedChildren(Get(whereInput, "conditions").a, firstIndex,
                                       JoinerOf(whereInput), TRUE)
          IN /\ compiled.sql = (IF joined.sql = <<>> THEN <<>>
                                ELSE Cat(Txt("WHERE "), joined.sql))
             /\ compiled.params = joined.params
    /\ (compiled.done /\ whereInput = C22_Tree /\ firstIndex = 1) =>
          /\ Render(compiled.sql)
                = << [t |-> "txt", s |-> "WHERE (a = "], [t |-> "ph", n |-> 1],
                     [t |-> "txt", s |-> ") AND ((b > "], [t |-> "ph", n |-> 2],
                     [t |-> "txt", s |-> ") OR (b < "], [t |-> "ph", n |-> 3],
                     [t |-> "txt", s |-> "))"] >>
          /\ compiled.params = <<Num(1), Num(2), Num(10)>>

C22_Witness == compiled.done /\ whereInput = C22_Tree /\ firstIndex = 1

(***************************************************************************)
(* NOT nodes (checked under SpecTrees).                                    *)
(***************************************************************************)
IsNot(n) == IsNode(n) /\ Get(n, "type") = Str("NOT")

\* the tree with every NOT cut down to its first child
RECURSIVE FirstChildOnly(_)
FirstChildOnly(n) ==
    IF ~IsLogical(n) THEN n
    ELSE LET cs == Get(n, "conditions").a
             kept == IF Get(n, "type") = Str("NOT") /\ Len(cs) > 1 THEN <<cs[1]>> ELSE cs
         IN Logical(Get(n, "type").s, [i \in 1..Len(kept) |-> FirstChildOnly(kept[i])])

\* some NOT of the tree has more than one child
RECURSIVE HasWideNot(_)
HasWideNot(n) ==
    /\ IsLogical(n)
    /\ LET cs == Get(n, "conditions").a
       IN \/ Get(n, "type") = Str("NOT") /\ Len(cs) > 1
          \/ \E i \in 1..Len(cs) : HasWideNot(cs[i])

\* C23: a NOT node compiles only its first child; further children give no
\* SQL, no params and take no placeholder number; with no child, or a first
\* child that compiles to empty SQL, the NOT compiles to empty SQL, otherwise
\* to "NOT (child_sql)" with the child's params; not(inArray("x", []))
\* compiles to "WHERE NOT (1 = 0)" with params [].
C23_NotIsUnary ==
    /\ (compiled.done /\ IsNot(whereInput)) =>
          LET cs == Get(whereInput, "conditions").a
          IN IF Len(cs) = 0 THEN compiled.sql = <<>> /\ compiled.params = <<>>
             ELSE LET built == buildConditionNode(cs[1], firstIndex)
                  IN IF built.sql = <<>>
                     THEN compiled.sql = <<>> /\ compiled.params = <<>>
                     ELSE /\ compiled.sql = Cat3(Txt("WHERE NOT ("), built.sql, Txt(")"))
                          /\ compiled.params = built.params
    /\ (compiled.done /\ IsNode(whereInput) /\ HasWideNot(whereInput)) =>
          LET unary == buildWhereClause(FirstChildOnly(whereInput), firstIndex)
          IN compiled.sql = unary.sql /\ compiled.params = unary.params
    /\ (compiled.done /\ whereInput = not(<<inArray("x", <<>>)>>)) =>
          /\ Render(compiled.sql) = <<[t |-> "txt", s |-> "WHERE NOT (1 = 0)"]>>
          /\ compiled.params = <<>>

\* a NOT given two children, beside a sibling that takes the next number
C23_Witness ==
    /\ compiled.done
    /\ IsPair(whereInput)
    /\ LET first == Get(whereInput, "conditions").a[1]
       IN IsNot(first) /\ Len(Get(first, "conditions").a) = 2
    /\ Len(compiled.params) >= 2

(***************************************************************************)
(* Claims about handler() after the work (checked under Spec).             *)
(***************************************************************************)
\* the caller's work resolved in call p
WorkSucceeded(p) == Did(p, "WORK") /\ proc[p].response # ""

\* step is the entry of p's trace right after its WORK
RightAfterWork(p, step) ==
    \E i \in DOMAIN proc[p].trace : At(p, i, "WORK") /\ At(p, i + 1, step)

\* C24: under useTransaction, whenever work completes successfully the call
\* issues COMMIT after the work and then resolves with exactly the value the
\* work returned; ROLLBACK is attempted only when the work itself failed,
\* never on a path where the work succeeded.
C24_CommitThenValue ==
    \A p \in Runs :
        (proc[p].pc = "done" /\ Truthy(proc[p].option.useTransaction) /\ WorkSucceeded(p)) =>
            /\ RightAfterWork(p, "COMMIT")
            /\ ~Did(p, "ROLLBACK")
            /\ proc[p].result = ReturnValue(proc[p].response)

\* how many times call p invoked the caller's work
WorkCount(p) == Len(SelectSeq(proc[p].trace, LAMBDA step : step = "WORK"))

C25_WorkOnceAfterBegin ==
    \A p \in Runs :
        /\ WorkCount(p) <= 1
        /\ Did(p, "WORK") =>
              /\ proc[p].leased
              /\ proc[p].conn \in Clients
              /\ IF Truthy(proc[p].option.useTransaction)
                 THEN At(p, 1, "BEGIN") /\ At(p, 2, "WORK")
                 ELSE At(p, 1, "WORK")

\* a step in which BEGIN rejects, or the work or COMMIT fails, does not
\* invoke the work
C25_Step ==
    \A p \in Runs :
        (p \in DOMAIN proc' /\ proc'[p].err # proc[p].err) =>
            /\ proc'[p].pc # "work"
            /\ WorkCount(p)' = WorkCount(p)

\* C25: in one handler() call the caller's work is invoked at most once, and
\* only after a lease was acquired and, under useTransaction, after BEGIN
\* succeeded on it; a failed work or a failed COMMIT is never invoked again.
C25_WorkInvokedOnce == []C25_WorkOnceAfterBegin /\ [][C25_Step]_vars

\* the work ran once, COMMIT failed, and the call is over
C25_Witness ==
    \E p \in Runs :
        /\ proc[p].pc = "done"
        /\ WorkCount(p) = 1
        /\ Did(p, "COMMIT")
        /\ proc[p].err # NoError

(***************************************************************************)
(* Claims about the probe of getConnection() (checked under SpecAcq).      *)
(***************************************************************************)
\* C26: in getConnection() a client whose probe fails is released to the
\* pool before the next attempt and is never returned; the probe failure is
\* a transient failure: the call backs off and makes the next attempt while
\* retries of the configured count remain, and returns null otherwise.  A
\* client that is returned passed its probe in the same attempt.
C26_ProbeFailureReleasesAndRetries ==
    \A p \in Acquires :
        /\ proc[p].caught = DeadConnectionError =>
              /\ \A c \in Clients : ~out[c]
              /\ proc[p].result.kind # "lease"
              /\ IF proc[p].attempt < ConfiguredRetries
                 THEN proc[p].pc = "sleeping"
                      /\ proc[p].sleepFor = baseDelay * 2^(proc[p].attempt)
                 ELSE proc[p].pc = "done" /\ proc[p].result = ReturnNull
        /\ proc[p].result.kind = "lease" =>
              /\ proc[p].caught = NoError
              /\ proc[p].result.lease = proc[p].conn
              /\ lastUse[proc[p].conn] # 0

\* after a null no client is checked out
C29_NothingHeldAfterNull ==
    \A p \in Acquires :
        (proc[p].pc = "done" /\ proc[p].result = ReturnNull) =>
            /\ proc[p].conn = 0
            /\ \A c \in Clients : ~out[c]

\* the call holds the client pool.connect() gave it (conn) and no other: it
\* takes one only from pool.connect(), gives it up only by releasing it, and
\* returns the one it holds or, holding none, null
C29_Step ==
    \A p \in Acquires :
        /\ (proc[p].conn # 0 /\ proc'[p].conn # proc[p].conn) =>
              /\ proc'[p].conn = 0
              /\ ~out'[proc[p].conn]
        /\ (proc[p].conn = 0 /\ proc'[p].conn # 0) =>
              /\ proc[p].pc = "connecting"
              /\ proc'[p].pc = "probing"
              /\ out'[proc'[p].conn]
        /\ (proc[p].pc # "done" /\ proc'[p].pc = "done") =>
              IF proc'[p].result = ReturnNull
              THEN proc'[p].conn = 0
              ELSE /\ proc'[p].conn # 0
                   /\ proc'[p].result = ReturnLease(proc'[p].conn)
                   /\ \A c \in Clients : out'[c] => c = proc'[p].conn

\* C29: when getConnection() returns null, no connection obtained during its
\* attempts is still held by the call: each was released; when it returns a
\* client, that client is the only connection the call holds.
C29_NoLeakOnFailure == []C29_NothingHeldAfterNull /\ [][C29_Step]_vars

\* null after a second attempt whose probe failed
C29_Witness ==
    \E p \in Acquires :
        /\ proc[p].pc = "done"
        /\ proc[p].result = ReturnNull
        /\ proc[p].caught = DeadConnectionError
        /\ proc[p].connects >= 2

(***************************************************************************)
(* Null values and list values (checked under SpecCompile).                *)
(***************************************************************************)
EqualityFamily == {Str("="), Str("!="), Str(">"), Str("<"), Str(">="), Str("<="), Str("LIKE")}

CountNull(values) == Len(SelectSeq(values, LAMBDA v : v = Null))

\* the null values a tree binds from the lists of its IN / NOT IN / BETWEEN leaves
RECURSIVE ListNulls(_)
ListNulls(n) ==
    IF IsLogical(n)
    THEN LET cs == Get(n, "conditions").a
         IN IF Len(cs) = 0 THEN 0
            ELSE IF Get(n, "type") = Str("NOT") \/ Len(cs) = 1 THEN ListNulls(cs[1])
            ELSE ListNulls(cs[1]) + ListNulls(cs[2])
    ELSE IF Get(n, "operator") \in EqualityFamily THEN 0
    ELSE CountNull(Get(n, "value").a)

HasNullEntry(w) == \E i \in 1..Len(w.e) : w.e[i][2] = Null

\* C27: a leaf of the equality family (=, !=, >, <, >=, <=, LIKE) whose
\* value is null compiles to "field IS NULL" with no params and no
\* placeholder; a null value in a flat map compiles the same way; no compiled
\* clause binds null to the placeholder of an equality-family leaf.
C27_NullComparesAsIsNull ==
    /\ (/\ compiled.done
        /\ IsNode(whereInput)
        /\ IsLeaf(whereInput)
        /\ Get(whereInput, "operator") \in EqualityFamily
        /\ Get(whereInput, "value") = Null) =>
           /\ compiled.sql = Txt("WHERE " \o Get(whereInput, "field").s \o " IS NULL")
           /\ compiled.params = <<>>
    /\ (compiled.done /\ IsNode(whereInput)) =>
           CountNull(compiled.params) = ListNulls(whereInput)
    /\ (compiled.done /\ IsFlat(whereInput) /\ HasNullEntry(whereInput)) =>
           /\ Render(compiled.sql) = FlatExpected(whereInput, firstIndex)
           /\ CountNull(compiled.params) = 0

HasListEntry(w) == \E i \in 1..Len(w.e) : IsArray(w.e[i][2]) /\ Len(w.e[i][2].a) > 0

IsListLeaf(n) ==
    /\ IsLeaf(n)
    /\ Get(n, "operator") \in {Str("IN"), Str("NOT IN")}
    /\ IsArray(Get(n, "value"))
    /\ Len(Get(n, "value").a) > 0

\* "field IN ($i, $i+1, ...)" as the database sees it, one placeholder per value
RECURSIVE NumberedList(_, _)
NumberedList(k, index) ==
    IF k = 0 THEN <<>>
    ELSE IF k = 1 THEN <<[t |-> "ph", n |-> index]>>
    ELSE Cat3(<<[t |-> "ph", n |-> index]>>, Txt(", "), NumberedList(k - 1, index + 1))

\* C28: a flat-map key whose value is a non-empty list of length k compiles
\* to "key IN (...)" with exactly k consecutive placeholders and adds exactly
\* the k list elements to params in list order; so do the IN and NOT IN
\* leaves of a tree.
C28_ListCompilesToIn ==
    /\ (compiled.done /\ IsNode(whereInput) /\ IsListLeaf(whereInput)) =>
          LET values == Get(whereInput, "value").a
          IN /\ Render(compiled.sql)
                  = Cat3(Txt("WHERE " \o Get(whereInput, "field").s \o " "
                                \o Get(whereInput, "operator").s \o " ("),
                         NumberedList(Len(values), firstIndex), Txt(")"))
             /\ compiled.params = values
    /\ (compiled.done /\ IsFlat(whereInput) /\ HasListEntry(whereInput)) =>
          /\ Render(compiled.sql) = FlatExpected(whereInput, firstIndex)
          /\ compiled.params
               = [i \in 1..Len(compiled.params) |-> Placeholders(compiled.sql)[i].v]
          /\ \A i \in 1..Len(whereInput.e) :
                LET value == whereInput.e[i][2]
                IN (IsArray(value) /\ Len(value.a) > 0) =>
                      \E j \in 0..(Len(compiled.params) - Len(value.a)) :
                          SubSeq(compiled.params, j + 1, j + Len(value.a)) = value.a

(***************************************************************************)
(* Claims about the query builders (checked under SpecBuild).              *)
(***************************************************************************)
\* the statement of an update whose SET keeps at least one entry was sent
UpdateSent == sent.done /\ sent.threw = "" /\ builder.kind = "update"

\* C21: in an UPDATE with k SET entries whose value is not undefined the SET
\* clause uses $1..$k, the WHERE clause is compiled from k + 1 and the params
\* are the SET values followed by the WHERE params: the statement's
\* placeholders are exactly $1..$N, left to right, the i-th bound to the
\* i-th param, for every where input (flat map or tree).
C21_UpdateNumbersThrough ==
    UpdateSent =>
        LET set == SelectSeq(builder.values.e, LAMBDA en : en[2] # Undefined)
            k == Len(set)
            ph == Placeholders(sent.sql)
            N == Len(sent.params)
            where == buildWhereClause(whereInput, k + 1)
        IN /\ sent.bound
           /\ Len(ph) = N
           /\ \A i \in 1..N : ph[i].n = i /\ ph[i].v = sent.params[i]
           /\ N = k + Len(where.params)
           /\ \A i \in 1..k : sent.params[i] = set[i][2]
           /\ SubSeq(sent.params, k + 1, N) = where.params
           /\ \A i \in 1..Len(where.params) :
                 Placeholders(where.sql)[i] = ph[k + i]

\* two SET entries, then a tree's three placeholders
C21_Witness ==
    /\ UpdateSent
    /\ Len(SelectSeq(builder.values.e, LAMBDA en : en[2] # Undefined)) = 2
    /\ whereInput \in Trees
    /\ Len(sent.params) = 5

\* a clause after a blank, or nothing
Spaced(clause) == IF clause = <<>> THEN <<>> ELSE Cat(Txt(" "), clause)

\* the first placeholder number of the builder's WHERE clause
WhereStart ==
    IF builder.kind = "update" THEN 1 + Len(DefinedOf(builder.values)) ELSE 1

\* the builder's statement around a WHERE clause
StatementWith(clause) ==
    CASE builder.kind = "select" ->
            Cat3(Txt("SELECT * FROM t"), Spaced(clause),
                 Cat(Spaced(buildLimitClause(builder.limitCount)),
                     Spaced(buildOffsetClause(builder.offsetCount))))
      [] builder.kind = "selectOne" -> Cat(Txt("SELECT * FROM t"), Spaced(clause))
      [] builder.kind = "count" -> Cat(Txt("SELECT COUNT(*) FROM t"), Spaced(clause))
      [] builder.kind = "delete" -> Cat(Txt("DELETE FROM t"), Spaced(clause))
      [] builder.kind = "update" ->
            Cat3(Cat(Txt("UPDATE t SET "), SetClauses(DefinedOf(builder.values), 1)),
                 Spaced(clause), Txt(" RETURNING *"))

\* C30: every filtering builder (select, selectOne, count, update, delete),
\* for every where input, sends a statement that holds the compiled WHERE
\* clause exactly once (one WHERE keyword when the filter is not empty, none
\* when it is) with a parameter list of exactly one value per placeholder of
\* the statement.
C30_ClauseOnceWithItsParams ==
    (sent.done /\ sent.threw = "") =>
        LET clause == buildWhereClause(whereInput, WhereStart).sql
            statement == StatementWith(clause)
        IN /\ sent.sql \in {statement, Cat(statement, Txt(" "))}
           /\ Len(sent.params) = Len(Placeholders(sent.sql))

====
